---- MODULE Spec2Model ----
(***************************************************************************)
(* A model of sharnoff/eventdistributor: Distributor[T] and Reader[T] of   *)
(* distributor.go.  Every public operation holds d.mu for its whole body,  *)
(* so each operation is one atomic action.  The callbacks are the three    *)
(* recording callbacks distributor_test.go registers; the order in which   *)
(* they run is kept in one log, calls.                                     *)
(***************************************************************************)
EXTENDS Integers, Sequences, FiniteSets, TLC

\* Bounds of the model.
MaxReaders == 2
MaxSubmits == 2

\* The events the producer may submit.  As in distributor_test.go an event is
\* MyEvent{id}, and the producer numbers its events 1, 2, 3, ...; the
\* Distributor never inspects a value.
Events == 1..MaxSubmits

\* The nil channel / nil pointer, and the package-level closedChannel.
Nil == 0
closedChannel == 1

RIDs == 1..MaxReaders
MaxConsumes == 3

VARIABLES
    basePosition,   \* d.basePosition
    buf,            \* d.buf: sequence of eventInfo [refcount, value]
    nextRefcount,   \* d.nextRefcount
    waiters,        \* d.waiters: Nil or a channel
    closed,         \* the channels that have been closed
    made,           \* number of channels made with make(chan struct{})
    readers,        \* the Reader values handed out: [d, position]
    held,           \* per Reader, the channel its caller got from WaitChan since the
                    \* Reader's last Consume (and when), NoWait if none
    calls,          \* log of callback invocations, in order
    nextId,         \* the producer: id of the next event it submits
    panic,          \* run-time panic raised by the last call ("none" if it returned)
    subAt,          \* history of a subscribed Reader: the number of Submit calls
                    \* made before Subscribe returned it
    got             \* history of a subscribed Reader: the values Consume returned to it

vars == <<basePosition, buf, nextRefcount, waiters, closed, made, readers,
          held, calls, nextId, panic, subAt, got>>

----------------------------------------------------------------------------
\* Callback logs

\* runCallbacks(fs, v) with the single recording callback of kind k
runCallbacks(cs, k, v) == Append(cs, <<k, v>>)

RECURSIVE Filter(_, _)
Filter(cs, k) ==
    IF cs = <<>> THEN <<>>
    ELSE IF Head(cs)[1] = k THEN <<Head(cs)[2]>> \o Filter(Tail(cs), k)
         ELSE Filter(Tail(cs), k)

\* the slices the test's callbacks append to
submitted   == Filter(calls, "onSubmit")
consumed    == Filter(calls, "onFullyConsumed")
sizeChanges == Filter(calls, "onBufsizeChange")

Range(s) == {s[i] : i \in 1..Len(s)}

----------------------------------------------------------------------------
\* Distributor

\* a slot appended without the claims of the Readers at the tail
eventInfoUnclaimed(rc, v) == [refcount |-> 0, value |-> v]

\* Submit lines 71-74: the slot appended for value
eventInfo(rc, v) == [refcount |-> rc, value |-> v]

\* what a Reader's caller holds before it called WaitChan
NoWait == [ch |-> Nil, at |-> 0]

Init ==
    /\ basePosition = 0
    /\ buf = <<>>
    /\ nextRefcount = 0
    /\ waiters = Nil
    /\ closed = {closedChannel}
    /\ made = 0
    /\ readers = [r \in RIDs |-> [d |-> "unborn", position |-> 0]]
    /\ held = [r \in RIDs |-> NoWait]
    /\ calls = <<>>
    /\ nextId = 1
    /\ panic = "none"
    /\ subAt = [r \in RIDs |-> 0]
    /\ got = [r \in RIDs |-> <<>>]

\* a Submit that looks at nextRefcount only, not at the backlog
NoAudienceIgnoresBacklog == nextRefcount = 0

\* Submit line 66: nobody can ever claim the event
NoAudience == Len(buf) = 0 /\ nextRefcount = 0

\* a Submit that closes the waiters' channel but keeps it in d.waiters
wakeWaitersKeeps(w, cl) ==
    IF w # Nil THEN [waiters |-> w, closed |-> cl \cup {w}]
    ELSE [waiters |-> w, closed |-> cl]

\* a Submit that forgets the waiters' channel without closing it
wakeWaitersLeaks(w, cl) == [waiters |-> Nil, closed |-> cl]

\* Submit lines 76-79: close the waiters' channel and forget it
wakeWaiters(w, cl) ==
    IF w # Nil THEN [waiters |-> Nil, closed |-> cl \cup {w}]
    ELSE [waiters |-> w, closed |-> cl]

\* a Submit with backpressure: it waits until no Reader has an unread event
SubmitWaitsForReaders(value) ==
    /\ \A r \in RIDs :
          readers[r].d = "d" => readers[r].position - basePosition >= Len(buf)
    /\ value = nextId
    /\ nextId' = nextId + 1
    /\ LET cs1 == runCallbacks(calls, "onSubmit", value)
       IN  IF NoAudience
           THEN /\ calls' = runCallbacks(cs1, "onFullyConsumed", value)
                /\ UNCHANGED <<buf, nextRefcount, waiters, closed>>
           ELSE /\ buf' = Append(buf, eventInfo(nextRefcount, value))
                /\ nextRefcount' = 0
                /\ waiters' = wakeWaiters(waiters, closed).waiters
                /\ closed' = wakeWaiters(waiters, closed).closed
                /\ calls' = runCallbacks(cs1, "onBufsizeChange", Len(buf'))
    /\ panic' = "none"
    /\ UNCHANGED <<basePosition, made, readers, held, subAt, got>>

Submit(value) ==
    /\ value = nextId
    /\ nextId' = nextId + 1
    /\ LET cs1 == runCallbacks(calls, "onSubmit", value)
       IN  IF NoAudience
           THEN /\ calls' = runCallbacks(cs1, "onFullyConsumed", value)
                /\ UNCHANGED <<buf, nextRefcount, waiters, closed>>
           ELSE /\ buf' = Append(buf, eventInfo(nextRefcount, value))
                /\ nextRefcount' = 0
                /\ waiters' = wakeWaiters(waiters, closed).waiters
                /\ closed' = wakeWaiters(waiters, closed).closed
                /\ calls' = runCallbacks(cs1, "onBufsizeChange", Len(buf'))
    /\ panic' = "none"
    /\ UNCHANGED <<basePosition, made, readers, held, subAt, got>>

\* a Subscribe that forgets the events already reclaimed
SubscribePositionLen == Len(buf)

\* a Subscribe that starts the Reader at the oldest retained event
SubscribePositionBase == basePosition

\* Subscribe line 97: where a new Reader starts
SubscribePosition == basePosition + Len(buf)

\* the Reader value the next Subscribe returns; at most MaxReaders are handed out
NewReader == CHOOSE r \in RIDs : readers[r].d = "unborn" /\ \A q \in RIDs : q < r => readers[q].d # "unborn"

Subscribe ==
    /\ \E r \in RIDs : readers[r].d = "unborn"
    /\ nextRefcount' = nextRefcount + 1
    /\ readers' = [readers EXCEPT ![NewReader] = [d |-> "d", position |-> SubscribePosition]]
    /\ subAt' = [subAt EXCEPT ![NewReader] = nextId - 1]
    /\ panic' = "none"
    /\ UNCHANGED <<basePosition, buf, waiters, closed, made, held, calls, nextId, got>>

\* a scan that counts the unclaimed slots wherever they are
firstNonEmptyAnywhere(b, i) == Cardinality({k \in 1..Len(b) : b[k].refcount = 0})

\* a scan that never breaks at a slot still claimed
firstNonEmptyNoBreak(b, i) == Len(b)

\* cleanupOldEvents lines 184-192: the number of leading slots with refcount 0
RECURSIVE firstNonEmpty(_, _)
firstNonEmpty(b, i) ==
    IF i < Len(b) /\ b[i + 1].refcount = 0 THEN firstNonEmpty(b, i + 1) ELSE i

\* a cleanup that reports the unclaimed slots but never drops them
cleanupKeepsSlots(b, base, cs) ==
    [buf |-> b, basePosition |-> base,
     calls |-> cs \o [i \in 1..firstNonEmpty(b, 0) |-> <<"onFullyConsumed", b[i].value>>]]

\* a cleanup without the early return of lines 194-196: it reports the size
\* even when it dropped nothing
cleanupAlwaysReports(b, base, cs) ==
    IF Len(b) = 0 THEN [buf |-> b, basePosition |-> base, calls |-> cs]
    ELSE LET f   == firstNonEmpty(b, 0)
             cs1 == cs \o [i \in 1..f |-> <<"onFullyConsumed", b[i].value>>]
         IN  [buf |-> SubSeq(b, f + 1, Len(b)),
              basePosition |-> base + f,
              calls |-> runCallbacks(cs1, "onBufsizeChange", Len(b) - f)]

\* cleanupOldEvents on the state (b, base, cs); returns the state it leaves
cleanupOldEvents(b, base, cs) ==
    IF Len(b) = 0 THEN [buf |-> b, basePosition |-> base, calls |-> cs]
    ELSE LET f   == firstNonEmpty(b, 0)
             cs1 == cs \o [i \in 1..f |-> <<"onFullyConsumed", b[i].value>>]
         IN  IF f = 0 THEN [buf |-> b, basePosition |-> base, calls |-> cs1]
             ELSE [buf |-> SubSeq(b, f + 1, Len(b)),
                   basePosition |-> base + f,
                   calls |-> runCallbacks(cs1, "onBufsizeChange", Len(b) - f)]

----------------------------------------------------------------------------
\* Reader

\* a Reader whose d is never checked: its methods run on a retired Reader as
\* they would if Unsubscribe had not cleared r.d
LiveAfterUnsubscribe(r) == readers[r].d # "unborn"

\* r.d is the Distributor, not nil: r's methods can lock r.d.mu
Live(r) == readers[r].d = "d"
Subscribed == {r \in RIDs : Live(r)}

\* a readiness test that is off by one
ReadyInclusive(r) == readers[r].position - basePosition <= Len(buf)

\* WaitChan line 120
Ready(r) == readers[r].position - basePosition < Len(buf)

\* a WaitChan that makes a channel of its own for every waiting caller
lazyWaitersAlwaysMakes(w, m) == [waiters |-> m + 2, made |-> m + 1]

\* WaitChan lines 123-126: d.waiters, made if there is none; channels are
\* numbered in the order they are made, after Nil and closedChannel
lazyWaiters(w, m) ==
    IF w = Nil THEN [waiters |-> m + 2, made |-> m + 1]
    ELSE [waiters |-> w, made |-> m]

\* the channel WaitChan returns to r in the current state
WaitChanResult(r) ==
    IF Ready(r) THEN closedChannel
    ELSE lazyWaiters(waiters, made).waiters

WaitChan(r) ==
    /\ Live(r)
    /\ IF Ready(r)
       THEN UNCHANGED <<waiters, made>>
       ELSE /\ waiters' = lazyWaiters(waiters, made).waiters
            /\ made' = lazyWaiters(waiters, made).made
    /\ held' = [held EXCEPT ![r] = [ch |-> WaitChanResult(r), at |-> nextId - 1]]
    /\ panic' = "none"
    /\ UNCHANGED <<basePosition, buf, nextRefcount, closed, readers, calls, nextId, subAt, got>>

\* a Consume that releases its claim and, inside the buffer, takes none on
\* the next slot
moveClaimLosesClaim(b, nr, idx) ==
    LET b1 == [b EXCEPT ![idx + 1].refcount = @ - 1]
    IN  IF idx + 1 < Len(b)
        THEN [buf |-> b1, nextRefcount |-> nr]
        ELSE [buf |-> b1, nextRefcount |-> nr + 1]

\* a Consume that, at the last slot, releases its claim and takes none on
\* nextRefcount
moveClaimForgetsTail(b, nr, idx) ==
    LET b1 == [b EXCEPT ![idx + 1].refcount = @ - 1]
    IN  IF idx + 1 < Len(b)
        THEN [buf |-> [b1 EXCEPT ![idx + 2].refcount = @ + 1], nextRefcount |-> nr]
        ELSE [buf |-> b1, nextRefcount |-> nr]

\* a Consume that takes the next claim without releasing the one it holds
moveClaimKeepsOld(b, nr, idx) ==
    IF idx + 1 < Len(b)
    THEN [buf |-> [b EXCEPT ![idx + 2].refcount = @ + 1], nextRefcount |-> nr]
    ELSE [buf |-> b, nextRefcount |-> nr + 1]

\* Consume lines 138-147: the buffer and nextRefcount after the claim moved forward
moveClaim(b, nr, idx) ==
    LET b1 == [b EXCEPT ![idx + 1].refcount = @ - 1]
    IN  IF idx + 1 < Len(b)
        THEN [buf |-> [b1 EXCEPT ![idx + 2].refcount = @ + 1], nextRefcount |-> nr]
        ELSE [buf |-> b1, nextRefcount |-> nr + 1]

\* a Consume that reads the head of the buffer instead of the Reader's slot
consumeValueHead(b, idx) == b[1].value

\* Consume line 139: the value returned
consumeValue(b, idx) == b[idx + 1].value

Consume(r) ==
    /\ Live(r)
    /\ LET idx == readers[r].position - basePosition
       IN  /\ idx >= 0 /\ idx < Len(buf)
           /\ LET m == moveClaim(buf, nextRefcount, idx)
                  c == cleanupOldEvents(m.buf, basePosition, calls)
              IN  /\ got' = [got EXCEPT ![r] = Append(@, consumeValue(buf, idx))]
                  /\ readers' = [readers EXCEPT ![r].position = @ + 1]
                  /\ nextRefcount' = m.nextRefcount
                  /\ buf' = c.buf
                  /\ basePosition' = c.basePosition
                  /\ calls' = c.calls
    /\ held' = [held EXCEPT ![r] = NoWait]
    /\ panic' = "none"
    /\ UNCHANGED <<waiters, closed, made, nextId, subAt>>

\* Consume line 139 with idx outside the buffer: index out of range, before
\* anything was written; the deferred Unlock runs
ConsumeNotReady(r) ==
    /\ Live(r)
    /\ LET idx == readers[r].position - basePosition
       IN  idx < 0 \/ idx >= Len(buf)
    /\ panic' = "index out of range"
    /\ UNCHANGED <<basePosition, buf, nextRefcount, waiters, closed, made, readers,
                   held, calls, nextId, subAt, got>>

\* an Unsubscribe that never runs cleanupOldEvents
unsubscribeNeverCleans(idx) == FALSE

\* Unsubscribe line 167: does the retiring Reader trigger reclamation
unsubscribeCleans(idx) == idx = 0

\* (a negative idx would index d.buf out of range at line 166)
Unsubscribe(r) ==
    /\ Live(r)
    /\ LET idx == readers[r].position - basePosition
       IN  /\ idx >= 0
           /\ IF idx < Len(buf)
              THEN LET b1 == [buf EXCEPT ![idx + 1].refcount = @ - 1]
                       c  == IF unsubscribeCleans(idx)
                             THEN cleanupOldEvents(b1, basePosition, calls)
                             ELSE [buf |-> b1, basePosition |-> basePosition, calls |-> calls]
                   IN  /\ buf' = c.buf
                       /\ basePosition' = c.basePosition
                       /\ calls' = c.calls
                       /\ UNCHANGED nextRefcount
              ELSE /\ nextRefcount' = nextRefcount - 1
                   /\ UNCHANGED <<buf, basePosition, calls>>
    /\ readers' = [readers EXCEPT ![r].d = "nil"]
    /\ held' = [held EXCEPT ![r] = NoWait]
    /\ subAt' = [subAt EXCEPT ![r] = 0]
    /\ got' = [got EXCEPT ![r] = <<>>]
    /\ panic' = "none"
    /\ UNCHANGED <<waiters, closed, made, nextId>>

\* any Reader method after Unsubscribe: r.d is nil, r.d.mu.Lock() dereferences it
UseAfterUnsubscribe(r) ==
    /\ readers[r].d = "nil"
    /\ panic' = "nil pointer dereference"
    /\ UNCHANGED <<basePosition, buf, nextRefcount, waiters, closed, made, readers,
                   held, calls, nextId, subAt, got>>

Next ==
    \/ \E value \in Events : Submit(value)
    \/ Subscribe
    \/ \E r \in RIDs : WaitChan(r)
    \/ \E r \in RIDs : Consume(r)
    \/ \E r \in RIDs : ConsumeNotReady(r)
    \/ \E r \in RIDs : Unsubscribe(r)
    \/ \E r \in RIDs : UseAfterUnsubscribe(r)

Spec == Init /\ [][Next]_vars

\* The operations that touch the backlog.  WaitChan and the panicking calls
\* write only waiters, made, held and panic, which none of these four reads
\* in a guard, so they can neither enable nor disable them.
LiveNext ==
    \/ \E value \in Events : Submit(value)
    \/ Subscribe
    \/ \E r \in RIDs : Consume(r)
    \/ \E r \in RIDs : Unsubscribe(r)

\* Readers that keep up: a Reader that stays ready eventually calls Consume
\* (unless it unsubscribes first)
LiveSpec == Init /\ [][LiveNext]_vars /\ \A r \in RIDs : WF_vars(Consume(r))

----------------------------------------------------------------------------
\* EventDistributor and EventReader (lines 208-402), the types under their
\* previous names.  Their methods repeat those of Distributor and Reader line
\* for line, except EventReader.Consume.

EventDistributorSubmit(value) == Submit(value)

EventDistributorSubscribe == Subscribe

EventReaderWaitChan(r) == WaitChan(r)

\* EventReader.Consume lines 333-349: as Reader.Consume, without a write to
\* r.position.  Each EventReader makes at most MaxConsumes successful calls.
EventReaderConsume(r) ==
    /\ Live(r)
    /\ Len(got[r]) < MaxConsumes
    /\ LET idx == readers[r].position - basePosition
       IN  /\ idx >= 0 /\ idx < Len(buf)
           /\ LET m == moveClaim(buf, nextRefcount, idx)
                  c == cleanupOldEvents(m.buf, basePosition, calls)
              IN  /\ got' = [got EXCEPT ![r] = Append(@, consumeValue(buf, idx))]
                  /\ nextRefcount' = m.nextRefcount
                  /\ buf' = c.buf
                  /\ basePosition' = c.basePosition
                  /\ calls' = c.calls
    /\ held' = [held EXCEPT ![r] = NoWait]
    /\ panic' = "none"
    /\ UNCHANGED <<waiters, closed, made, readers, nextId, subAt>>

\* EventReader.Consume line 338 with idx outside the buffer
EventReaderConsumePanics(r) == ConsumeNotReady(r)

EventReaderUnsubscribe(r) == Unsubscribe(r)

\* EventReader.Unsubscribe line 360 with a negative idx: idx < len(d.buf)
\* holds and d.buf[idx] is out of range, before anything was written
EventReaderUnsubscribePanics(r) ==
    /\ Live(r)
    /\ readers[r].position - basePosition < 0
    /\ panic' = "index out of range"
    /\ UNCHANGED <<basePosition, buf, nextRefcount, waiters, closed, made, readers,
                   held, calls, nextId, subAt, got>>

EventReaderUseAfterUnsubscribe(r) == UseAfterUnsubscribe(r)

LegacyNext ==
    \/ \E value \in Events : EventDistributorSubmit(value)
    \/ EventDistributorSubscribe
    \/ \E r \in RIDs : EventReaderWaitChan(r)
    \/ \E r \in RIDs : EventReaderConsume(r)
    \/ \E r \in RIDs : EventReaderConsumePanics(r)
    \/ \E r \in RIDs : EventReaderUnsubscribe(r)
    \/ \E r \in RIDs : EventReaderUnsubscribePanics(r)
    \/ \E r \in RIDs : EventReaderUseAfterUnsubscribe(r)

LegacySpec == Init /\ [][LegacyNext]_vars

----------------------------------------------------------------------------
\* Observations the properties are stated on

position(r) == readers[r].position
tail == basePosition + Len(buf)

\* the events that were appended to the buffer, in order: those whose
\* onSubmit was followed by onBufsizeChange rather than by onFullyConsumed.
\* The event at absolute position p is Appended[p + 1].
RECURSIVE appendedFrom(_)
appendedFrom(i) ==
    IF i >= Len(calls) THEN <<>>
    ELSE IF calls[i][1] = "onSubmit" /\ calls[i + 1][1] = "onBufsizeChange"
         THEN <<calls[i][2]>> \o appendedFrom(i + 1)
         ELSE appendedFrom(i + 1)
Appended == appendedFrom(1)

\* WaitChan would hand r a channel that is already closed
Signaled(r) == WaitChanResult(r) \in closed

----------------------------------------------------------------------------
\* C1: per-reader FIFO without gaps or repeats: the k-th value Consume
\* returned to a Reader is the k-th event submitted after its Subscribe.
C1_Fifo ==
    \A r \in Subscribed :
        /\ subAt[r] + Len(got[r]) <= Len(submitted)
        /\ \A k \in 1..Len(got[r]) : got[r][k] = submitted[subAt[r] + k]

\* a Reader has consumed two events while another subscribed Reader has
\* consumed none of them
C1_Witness ==
    \E r, q \in Subscribed : r # q /\ Len(got[r]) = 2 /\ Len(got[q]) = 0

\* C2: tail-only visibility: a Reader subscribed after N events, which has
\* not consumed yet, is signaled exactly when more than N events have been
\* submitted.
C2_TailOnly ==
    \A r \in Subscribed :
        Len(got[r]) = 0 => (Signaled(r) <=> Len(submitted) > subAt[r])

\* a Reader subscribed after one event was submitted, while that event is
\* still in the backlog, and is not signaled
C2_Witness ==
    \E r \in Subscribed :
        /\ subAt[r] = 1 /\ Len(submitted) = 1 /\ Len(buf) = 1
        /\ held[r].ch # Nil /\ held[r].ch \notin closed

\* C3: retention: onFullyConsumed has not fired for the event at absolute
\* position p while a subscribed Reader still has position <= p.
C3_Retention ==
    \A p \in 0..(Len(Appended) - 1) :
        (\E r \in Subscribed : position(r) <= p) => Appended[p + 1] \notin Range(consumed)

\* one of two Readers has consumed the head event, the other has not, and
\* the event is still retained
C3_Witness ==
    \E r, q \in Subscribed :
        /\ Len(got[r]) = 1 /\ position(q) = position(r) - 1
        /\ Len(buf) >= 1 /\ got[r][1] = buf[1].value
        /\ got[r][1] \notin Range(consumed)

\* C4: prompt reclamation: between operations the backlog is empty when no
\* Reader is subscribed, and otherwise starts at the least position of the
\* subscribed Readers.
C4_Prompt ==
    /\ Subscribed = {} => buf = <<>>
    /\ Subscribed # {} => \E r \in Subscribed :
                            /\ position(r) = basePosition
                            /\ \A q \in Subscribed : position(q) >= position(r)

\* every Reader has unsubscribed, one of them without consuming the event it
\* pointed at, and that event has been reclaimed
C4_Witness ==
    /\ Subscribed = {}
    /\ \E r \in RIDs : readers[r].d = "nil" /\ position(r) < basePosition
    /\ buf = <<>>

\* a step that is a discarding Submit: the backlog stays empty and the only
\* callbacks are onSubmit, then onFullyConsumed, for the submitted value
C5_Discarded ==
    /\ buf = <<>> /\ buf' = <<>>
    /\ calls' = calls \o << <<"onSubmit", nextId>>, <<"onFullyConsumed", nextId>> >>

\* C5: no-audience discard happens exactly when nobody is subscribed: a
\* Submit fires onSubmit then onFullyConsumed for its value and leaves the
\* backlog empty, with no append and no onBufsizeChange, iff no Reader is
\* subscribed at the call; with a subscribed Reader the event is appended.
C5_NoAudience ==
    [][nextId' # nextId =>
          /\ (Subscribed = {}) <=> C5_Discarded
          /\ Subscribed # {} =>
                /\ Len(buf') = Len(buf) + 1
                /\ buf'[Len(buf')].value = nextId
                /\ SubSeq(buf', 1, Len(buf)) = buf]_vars

\* one Submit was discarded (its onSubmit is directly followed by its
\* onFullyConsumed) and a later one, made with a Reader subscribed, is retained
C5_Witness ==
    /\ \E i \in 1..(Len(calls) - 1) :
          calls[i][1] = "onSubmit" /\ calls[i + 1] = <<"onFullyConsumed", calls[i][2]>>
    /\ Subscribed # {}
    /\ buf # <<>>

\* C6: onFullyConsumed fires exactly once per event: never twice for one
\* event, never before that event's onSubmit, and once for every submitted
\* event that is no longer (or never was) in the backlog.
C6_ExactlyOnce ==
    /\ \A i, j \in 1..Len(consumed) : consumed[i] = consumed[j] => i = j
    /\ \A i \in 1..Len(calls) :
          calls[i][1] = "onFullyConsumed" =>
              \E j \in 1..(i - 1) : calls[j] = <<"onSubmit", calls[i][2]>>
    /\ \A e \in Range(submitted) :
          e \notin {buf[i].value : i \in 1..Len(buf)} => e \in Range(consumed)

\* one event was discarded by Submit and another was dropped from the
\* backlog by cleanupOldEvents
C6_Witness ==
    /\ Len(consumed) = 2
    /\ basePosition = 1
    /\ Len(Appended) = 1

\* C7: WaitChan readiness: for a subscribed Reader, WaitChan returns a
\* closed channel iff position < basePosition + len(buf), iff more events
\* were submitted since its Subscribe than it has consumed.
C7_Readiness ==
    \A r \in Subscribed :
        /\ Signaled(r) <=> position(r) < basePosition + Len(buf)
        /\ Signaled(r) <=> Len(submitted) - subAt[r] > Len(got[r])

\* a Reader has consumed the newest event and its WaitChan handed it an
\* open channel
C7_Witness ==
    \E r \in Subscribed :
        /\ Len(got[r]) >= 1 /\ got[r][Len(got[r])] = Len(submitted)
        /\ held[r].ch \notin {Nil, closedChannel}
        /\ held[r].ch \notin closed

\* r's caller holds a channel it got from WaitChan, while not ready, since
\* the last Submit
C8_Waiting(r) == held[r].ch \notin {Nil, closedChannel} /\ held[r].at = nextId - 1

\* all waiting Readers hold the same channel
C8_Shared ==
    \A r, q \in Subscribed :
        C8_Waiting(r) /\ C8_Waiting(q) => held[r].ch = held[q].ch

\* a Submit step closes the waiting Readers' channel and makes them ready
C8_Wake ==
    nextId' # nextId =>
        \A r \in Subscribed :
            C8_Waiting(r) =>
                /\ held[r].ch \notin closed
                /\ closed' = closed \cup {held[r].ch}
                /\ Ready(r)'
                /\ WaitChanResult(r)' = closedChannel

\* C8: broadcast wakeup: the Readers that called WaitChan while not ready
\* since the last Submit hold one shared channel, and the next Submit closes
\* that channel (open until then) and makes each of them ready.
C8_Broadcast == [][C8_Shared' /\ C8_Wake]_vars

\* two Readers hold the same channel from their waits, a Submit has closed
\* it, and both are ready
C8_Witness ==
    \E r, q \in Subscribed :
        /\ r # q
        /\ held[r].ch = held[q].ch
        /\ held[r].ch \notin {Nil, closedChannel}
        /\ held[r].ch \in closed
        /\ Ready(r) /\ Ready(q)

\* C9: no lost and no spurious wakeup: the channel a subscribed Reader got
\* from WaitChan while not ready, and has held since without Consume, is
\* closed iff a Submit has occurred since, iff the Reader is now ready; and a
\* not-ready Reader is never handed a channel that is already closed.
C9_Wakeup ==
    \A r \in Subscribed :
        /\ held[r].ch \notin {Nil, closedChannel} =>
              /\ held[r].ch \in closed <=> Len(submitted) > held[r].at
              /\ held[r].ch \in closed <=> Ready(r)
        /\ ~Ready(r) => WaitChanResult(r) \notin closed

\* one Reader still holds the channel an earlier Submit closed, while another
\* Reader, waiting again after its Consume, holds a newer channel that is open
C9_Witness ==
    \E r, q \in Subscribed :
        /\ held[r].ch \notin {Nil, closedChannel} /\ held[r].ch \in closed
        /\ held[q].ch \notin {Nil, closedChannel} /\ held[q].ch \notin closed
        /\ Len(got[q]) >= 1

\* C10: a slow Reader blocks nobody: whatever the positions of the Readers,
\* the producer's next Submit can be taken, and every ready Reader can take
\* Consume and is returned its own next event.
C10_NonBlocking ==
    [](/\ nextId \in Events => ENABLED Submit(nextId)
       /\ \A r \in Subscribed :
             Ready(r) =>
                 ENABLED (/\ Consume(r)
                          /\ got'[r] = Append(got[r], submitted[subAt[r] + Len(got[r]) + 1])))

\* a Reader that has never consumed lags two events behind, while the
\* producer went on submitting and another Reader consumed both events
C10_Witness ==
    \E r, q \in Subscribed :
        /\ r # q
        /\ Len(got[r]) = 0 /\ position(r) = basePosition
        /\ Len(buf) = 2
        /\ Len(got[q]) = 2

\* the sizes reported so far are consistent with the backlog: consecutive
\* reports differ and the last one is the current length
C11_Tracks ==
    /\ \A i \in 1..(Len(sizeChanges) - 1) : sizeChanges[i] # sizeChanges[i + 1]
    /\ Len(buf) = IF sizeChanges = <<>> THEN 0 ELSE sizeChanges[Len(sizeChanges)]

\* the onBufsizeChange calls a step makes
C11_Reports == {i \in (Len(calls) + 1)..Len(calls') : calls'[i][1] = "onBufsizeChange"}

\* C11: onBufsizeChange tracks the backlog length exactly: a call reports
\* the new length, once, iff it changed len(buf), so consecutive reports
\* differ and the last report is the current length.
C11_BufsizeChange ==
    /\ []C11_Tracks
    /\ [][/\ SubSeq(calls', 1, Len(calls)) = calls
          /\ IF Len(buf') # Len(buf)
             THEN \E i \in C11_Reports : C11_Reports = {i} /\ calls'[i][2] = Len(buf')
             ELSE C11_Reports = {}]_vars

\* the size was reported after an appending Submit, after a Consume that
\* trimmed, after a second Submit and after an Unsubscribe that trimmed
C11_Witness ==
    /\ sizeChanges = <<1, 0, 1, 0>>
    /\ \E r \in RIDs : readers[r].d = "nil" /\ position(r) = 1

\* C12: use after Unsubscribe is a fatal fault that corrupts nothing: on a
\* retired Reader no method runs, every call panics on the nil r.d, and that
\* call changes neither basePosition, the backlog and its refcounts,
\* nextRefcount nor the wakeup channel, and fires no callback.
C12_UseAfterUnsubscribe ==
    \A r \in RIDs :
        readers[r].d = "nil" =>
            /\ ENABLED UseAfterUnsubscribe(r)
            /\ ~ENABLED WaitChan(r)
            /\ ~ENABLED Consume(r)
            /\ ~ENABLED ConsumeNotReady(r)
            /\ ~ENABLED Unsubscribe(r)
            /\ ~ENABLED (/\ UseAfterUnsubscribe(r)
                         /\ \/ panic' # "nil pointer dereference"
                            \/ ~UNCHANGED <<basePosition, buf, nextRefcount, waiters,
                                            closed, made, calls, readers>>)

\* a call on a retired Reader has just panicked while another Reader is
\* subscribed and the backlog holds an event
C12_Witness ==
    /\ panic = "nil pointer dereference"
    /\ \E r \in RIDs : readers[r].d = "nil"
    /\ Subscribed # {}
    /\ buf # <<>>

\* a subscribed Reader that has not consumed keeps every event submitted
\* since its Subscribe in the backlog
C13_Held ==
    \A r \in Subscribed :
        Len(got[r]) = 0 =>
            \A e \in (subAt[r] + 1)..Len(submitted) :
                \E i \in 1..Len(buf) : buf[i].value = e

\* C13: eventual reclamation: when every Reader that stays ready eventually
\* consumes, every submitted event eventually triggers onFullyConsumed and
\* the backlog becomes empty again; while a subscribed Reader that never
\* consumes keeps every event submitted after its Subscribe in the backlog.
C13_Reclaimed ==
    /\ \A e \in Events : (e \in Range(submitted)) ~> (e \in Range(consumed))
    /\ []<>(buf = <<>>)
    /\ []C13_Held

\* two events were retained for a Reader and both have been reclaimed
C13_Witness ==
    /\ basePosition = 2
    /\ buf = <<>>
    /\ consumed = <<1, 2>>

\* the number of subscribed Readers that have not passed slot i of the buffer
C14_NotPassed(i) == Cardinality({r \in Subscribed : position(r) <= basePosition + i - 1})

\* the number of subscribed Readers whose next event is slot i of the buffer
C14_PointingAt(i) == Cardinality({r \in Subscribed : position(r) = basePosition + i - 1})

\* C14 as the specification states it: the refcount of every slot is the
\* number of subscribed Readers with position <= the slot's position.
C14_Original == \A i \in 1..Len(buf) : buf[i].refcount = C14_NotPassed(i)

\* C14, amended: the refcount of every slot is the number of subscribed
\* Readers whose position is exactly the slot's position; a Reader further
\* back has not passed the slot but holds no claim on it.
C14_SlotRefcount == \A i \in 1..Len(buf) : buf[i].refcount = C14_PointingAt(i)

\* one Reader points at the first slot and one at the second: two Readers have
\* not passed the second slot, and its refcount is 1
C14_Witness ==
    /\ Len(buf) = 2
    /\ C14_NotPassed(2) = 2
    /\ buf[1].refcount = 1
    /\ buf[2].refcount = 1

\* nextRefcount is the number of subscribed Readers at the tail
C15_TailCount ==
    /\ nextRefcount = Cardinality({r \in Subscribed : position(r) = tail})
    /\ nextRefcount >= 0

\* C15: nextRefcount equals the tail population: it is the number of
\* subscribed Readers whose position is basePosition + len(buf), never
\* negative, and zero right after every Submit that appended.
C15_NextRefcount ==
    [][/\ C15_TailCount'
       /\ (nextId' # nextId /\ Len(buf') = Len(buf) + 1) => nextRefcount' = 0]_vars

\* one Reader has consumed up to the tail and is counted in nextRefcount,
\* another lags behind and is not
C15_Witness ==
    \E r, q \in Subscribed :
        /\ Len(got[r]) >= 1 /\ position(r) = tail
        /\ position(q) < tail
        /\ nextRefcount = 1

\* the index Consume (line 137) and Unsubscribe (line 164) compute
C16_idx(r) == position(r) - basePosition

\* C16: every subscribed Reader has basePosition <= position <=
\* basePosition + len(buf), so the index position - basePosition is never
\* negative and a ready Reader's index names an existing slot; a Reader's
\* position never decreases.
C16_CursorBounds ==
    [][/\ \A r \in Subscribed' :
              /\ basePosition' <= position(r)' /\ position(r)' <= tail'
              /\ C16_idx(r)' >= 0
              /\ Ready(r)' => C16_idx(r)' + 1 \in 1..Len(buf')
       /\ \A r \in RIDs : readers[r].d # "unborn" => position(r)' >= position(r)]_vars

\* events have been reclaimed, one Reader subscribed afterwards and is at the
\* tail, another is ready at the head slot
C16_Witness ==
    /\ basePosition >= 1 /\ buf # <<>>
    /\ \E r, q \in Subscribed :
           /\ position(r) = tail /\ subAt[r] >= 1
           /\ position(q) = basePosition /\ Ready(q) /\ Len(got[q]) >= 1

\* the number of slots a step drops from the backlog
C17_Dropped == basePosition' - basePosition

\* the claims on slot i that a step releases: its Readers that unsubscribe or
\* move on
C17_Released(i) ==
    Cardinality({r \in Subscribed : /\ position(r) = basePosition + i - 1
                                    /\ r \notin Subscribed' \/ position(r)' # position(r)})

C17_Prefix ==
    /\ Len(consumed) <= Len(submitted)
    /\ consumed = SubSeq(submitted, 1, Len(consumed))

\* C17: basePosition never decreases, slots leave the backlog only from the
\* front and only with refcount zero, and the events reported by
\* onFullyConsumed are always a prefix of the events reported by onSubmit.
C17_FifoReclamation ==
    /\ []C17_Prefix
    /\ [][/\ C17_Dropped \in 0..Len(buf)
          /\ Len(buf') \in {Len(buf) - C17_Dropped, Len(buf) - C17_Dropped + 1}
          /\ \A i \in (C17_Dropped + 1)..Len(buf) : buf'[i - C17_Dropped].value = buf[i].value
          /\ \A i \in 1..C17_Dropped : buf[i].refcount - C17_Released(i) = 0]_vars

\* one event was discarded for want of an audience, the next was kept and then
\* reclaimed from the front while a later Reader is subscribed
C17_Witness ==
    /\ consumed = <<1, 2>> /\ basePosition = 1 /\ buf = <<>>
    /\ Subscribed # {}

\* some subscribed Reader is at the tail: it is not ready
C18_SomeoneWaiting == \E r \in Subscribed : position(r) = tail

\* the handle is present only while a subscribed Reader is at the tail
C18_Original == waiters # Nil => C18_SomeoneWaiting

\* a step in which Submit appended a slot
C18_Appended == nextId' # nextId /\ Len(buf') = Len(buf) + 1

\* C18: the wakeup handle (waiters) becomes present only when a subscribed
\* Reader at the tail calls WaitChan, is an open channel while present,
\* and becomes absent only by a Submit that appends, which closes it; an
\* Unsubscribe of the waiting Reader or a discarded Submit leaves it present.
C18_HandleLifetime ==
    [][/\ waiters' # Nil => waiters' \notin closed'
       /\ (waiters = Nil /\ waiters' # Nil) =>
              \E r \in Subscribed : /\ position(r) = tail
                                    /\ held'[r].ch = waiters'
                                    /\ UNCHANGED <<buf, readers, nextId>>
       /\ (waiters # Nil /\ waiters' # waiters) =>
              waiters' = Nil /\ waiters \in closed' /\ C18_Appended
       /\ C18_Appended => waiters' = Nil]_vars

\* the only waiting Reader unsubscribed and a later event was discarded: the
\* handle is still there, open, with nobody subscribed
C18_Witness ==
    /\ waiters # Nil /\ waiters \notin closed
    /\ Subscribed = {}
    /\ \E r \in RIDs : readers[r].d = "nil"
    /\ consumed = <<1>> /\ buf = <<>>

\* the claims held on the slots of the backlog
RECURSIVE C19_Claims(_)
C19_Claims(b) == IF b = <<>> THEN 0 ELSE b[1].refcount + C19_Claims(Tail(b))

\* C19: every slot's refcount is >= 0 and is the number of subscribed
\* Readers whose position is exactly the slot's position; the slots'
\* refcounts and nextRefcount add up to the number of subscribed Readers; and
\* the head slot of a non-empty backlog has refcount >= 1.
C19_ClaimAccounting ==
    /\ \A i \in 1..Len(buf) :
           /\ buf[i].refcount >= 0
           /\ buf[i].refcount = Cardinality({r \in Subscribed : position(r) - basePosition = i - 1})
    /\ C19_Claims(buf) + nextRefcount = Cardinality(Subscribed)
    /\ buf # <<>> => buf[1].refcount >= 1

\* a Reader unsubscribed from the second slot: the remaining Reader holds the
\* head slot and the second slot is unclaimed
C19_Witness ==
    /\ Cardinality(Subscribed) = 1 /\ (\E r \in RIDs : readers[r].d = "nil")
    /\ Len(buf) = 2 /\ buf[1].refcount = 1 /\ buf[2].refcount = 0
    /\ nextRefcount = 0

\* C20: EventReader.Consume keeps the contract of Reader.Consume: it returns
\* the first event the EventReader has not seen and marks it as seen, so two
\* successive calls never return the same event, and once the EventReader
\* has consumed every event submitted since its Subscribe its WaitChan is
\* unsignaled until a newer event is submitted.
C20_LegacyContract ==
    \A r \in Subscribed :
        /\ \A k \in 1..Len(got[r]) :
               /\ subAt[r] + k <= Len(submitted)
               /\ got[r][k] = submitted[subAt[r] + k]
        /\ \A k \in 1..(Len(got[r]) - 1) : got[r][k] # got[r][k + 1]
        /\ (Len(got[r]) >= 1 /\ Len(submitted) <= subAt[r] + Len(got[r])) => ~Signaled(r)

====
